---- MODULE Spec2Model ----
(***************************************************************************)
(* Model of the MultiHiertt helper scripts:                                *)
(*   renumber_test_uids.py, convert_tables_to_xlsx.py,                     *)
(*   convert_tables_to_xlsx_with_desc.py, generate_train_grp.py.           *)
(*                                                                         *)
(* A Python str is a sequence of one-character strings; a Python dict is   *)
(* a function whose DOMAIN is its key set; a Python list is a sequence.    *)
(***************************************************************************)
EXTENDS Integers, Sequences, FiniteSets, TLC

VARIABLES
    script,        \* which script's main() is running
    pc,            \* position inside main()
    input,         \* the value json.load returned (kept for reference)
    examples,      \* the list main() iterates over / mutates
    eidx,          \* position of main's loop over the examples (1-based)
    tidx,          \* index of the table loop inside export_tables (0-based)
    files,         \* file system: function path -> content
    dirs,          \* file system: set of existing directories
    rules,         \* generate_train_grp: the loaded rules mapping
    output,        \* result written / returned by the script
    args           \* locals of the running function: the arguments of a call,
                   \* export_tables' uid/tables/desc_map, main's list of entries

vars == <<script, pc, input, examples, eidx, tidx, files, dirs, rules, output, args>>

----------------------------------------------------------------------------
(* Bounds of the model *)

MaxPad == 9        \* renumber: length of the uniform prefix of the input list
MaxTail == 2       \* renumber: length of the freely chosen suffix
MaxParas == 3      \* extract_descriptions: paragraphs per list
MaxExamples == 2   \* converters / GRP builder: examples per input file
MaxRules == 2      \* generate_feedback: rules per question type

----------------------------------------------------------------------------
(* Python str primitives *)

\* the characters str.strip() and \s treat as whitespace (those of the model's alphabet)
Whitespace == {" ", "\n", "\t", "\r", "\f"}

Digits == <<"0", "1", "2", "3", "4", "5", "6", "7", "8", "9">>

IsDigit(c) == \E d \in 1..10 : Digits[d] = c

DigitVal(c) == (CHOOSE d \in 1..10 : Digits[d] = c) - 1

RECURSIVE DecStrWrong(_)
DecStrWrong(n) ==
    IF n < 10 THEN <<Digits[n + 1]>>
    ELSE <<Digits[(n % 10) + 1]>> \o DecStrWrong(n \div 10)

\* str(n) for a non-negative int
RECURSIVE DecStr(_)
DecStr(n) ==
    IF n < 10 THEN <<Digits[n + 1]>>
    ELSE DecStr(n \div 10) \o <<Digits[(n % 10) + 1]>>

\* int(s) for a string of decimal digits
RECURSIVE ParseDec(_)
ParseDec(s) ==
    IF s = <<>> THEN 0
    ELSE 10 * ParseDec(SubSeq(s, 1, Len(s) - 1)) + DigitVal(s[Len(s)])

RECURSIVE LStrip(_)
LStrip(s) ==
    IF s # <<>> /\ s[1] \in Whitespace THEN LStrip(Tail(s)) ELSE s

RECURSIVE RStrip(_)
RStrip(s) ==
    IF s # <<>> /\ s[Len(s)] \in Whitespace
    THEN RStrip(SubSeq(s, 1, Len(s) - 1))
    ELSE s

\* s.strip()
Strip(s) == RStrip(LStrip(s))

\* sep.join(list)
RECURSIVE Join(_, _)
Join(sep, list) ==
    IF list = <<>> THEN <<>>
    ELSE IF Len(list) = 1 THEN list[1]
    ELSE list[1] \o sep \o Join(sep, Tail(list))

\* s.startswith(prefix)
StartsWith(s, prefix) ==
    /\ Len(prefix) <= Len(s)
    /\ SubSeq(s, 1, Len(prefix)) = prefix

\* needle in s
Contains(s, needle) ==
    \E i \in 1..(Len(s) - Len(needle) + 1) :
        SubSeq(s, i, i + Len(needle) - 1) = needle

\* dict.get(key, default)
Get(d, key, default) == IF key \in DOMAIN d THEN d[key] ELSE default

\* d[key] = value
Put(d, key, value) ==
    [k \in (DOMAIN d) \cup {key} |-> IF k = key THEN value ELSE d[k]]

\* all sequences over S of length at most n
SeqUpTo(S, n) == UNION {[1..m -> S] : m \in 0..n}

----------------------------------------------------------------------------
(* renumber_test_uids.py *)

RenumberPadExample == [uid |-> <<"7">>, qa |-> <<"q">>]

RenumberExamples ==
    { [qa |-> <<"q">>],
      [uid |-> <<"7">>, qa |-> <<"r">>],
      [uid |-> <<"1">>, qa |-> <<"q">>, tables |-> <<"t">>] }

RenumberInputs ==
    { [i \in 1..k |-> RenumberPadExample] \o tail :
        k \in 0..MaxPad, tail \in SeqUpTo(RenumberExamples, MaxTail) }

InitRenumber ==
    /\ script = "renumber"
    /\ pc = "renumber_uids"
    /\ input \in RenumberInputs
    /\ examples = input
    /\ eidx = 1
    /\ tidx = 0
    /\ files = <<>>
    /\ dirs = {}
    /\ rules = <<>>
    /\ output = <<>>
    /\ args = <<>>

\* one iteration of the for loop of renumber_uids
RenumberUidsStep ==
    /\ script = "renumber"
    /\ pc = "renumber_uids"
    /\ eidx <= Len(examples)
    /\ examples' = [examples EXCEPT ![eidx] = Put(@, "uid", DecStr(eidx))]
    /\ eidx' = eidx + 1
    /\ UNCHANGED <<script, pc, input, tidx, files, dirs, rules, output, args>>

\* the loop is exhausted: return examples
RenumberUidsReturn ==
    /\ script = "renumber"
    /\ pc = "renumber_uids"
    /\ eidx > Len(examples)
    /\ pc' = "save_examples"
    /\ UNCHANGED <<script, input, examples, eidx, tidx, files, dirs, rules, output, args>>

\* json.dump(examples) to the output path
SaveExamples ==
    /\ script = "renumber"
    /\ pc = "save_examples"
    /\ output' = examples
    /\ pc' = "done"
    /\ UNCHANGED <<script, input, examples, eidx, tidx, files, dirs, rules, args>>

NextRenumber == RenumberUidsStep \/ RenumberUidsReturn \/ SaveExamples

SpecRenumber == InitRenumber /\ [][NextRenumber]_vars

\* C3: after renumber_uids the saved list has the length and order of the
\* input, the i-th example's uid is the decimal string of i (so the uids are
\* "1".."N" without gaps or duplicates whatever the old uids were), and every
\* other field is unchanged.
C3_RenumberSequential ==
    pc = "done" =>
        /\ Len(output) = Len(input)
        /\ \A i \in 1..Len(output) :
            /\ "uid" \in DOMAIN output[i]
            /\ output[i]["uid"] # <<>>
            /\ \A j \in 1..Len(output[i]["uid"]) : IsDigit(output[i]["uid"][j])
            /\ output[i]["uid"][1] # "0"
            /\ ParseDec(output[i]["uid"]) = i
            /\ DOMAIN output[i] = (DOMAIN input[i]) \cup {"uid"}
            /\ \A k \in (DOMAIN input[i]) \ {"uid"} : output[i][k] = input[i][k]
        /\ \A i, j \in 1..Len(output) :
            i # j => output[i]["uid"] # output[j]["uid"]

C3_Witness ==
    /\ pc = "done"
    /\ Len(input) >= 10
    /\ \E i \in 1..Len(input) : "uid" \notin DOMAIN input[i]
    /\ \E i, j \in 1..Len(input) :
        /\ i # j
        /\ "uid" \in DOMAIN input[i]
        /\ "uid" \in DOMAIN input[j]
        /\ input[i]["uid"] = input[j]["uid"]

----------------------------------------------------------------------------
(* convert_tables_to_xlsx_with_desc.py: extract_descriptions *)

\* first index >= i of s that is not whitespace (Len(s) + 1 when none): \s*
RECURSIVE SkipWs(_, _)
SkipWs(s, i) ==
    IF i <= Len(s) /\ s[i] \in Whitespace THEN SkipWs(s, i + 1) ELSE i

\* first index >= i of s that is not a digit (Len(s) + 1 when none): \d+
RECURSIVE SkipDigits(_, _)
SkipDigits(s, i) ==
    IF i <= Len(s) /\ IsDigit(s[i]) THEN SkipDigits(s, i + 1) ELSE i

HashHash == <<"#", "#">>

TableWord == <<"T", "a", "b", "l", "e">>

LiteralAt(s, i, lit) ==
    /\ i + Len(lit) - 1 <= Len(s)
    /\ SubSeq(s, i, i + Len(lit) - 1) = lit

\* TABLE_MARKER_RE matched at index i of s: ##\s*Table\s*(\d+)\s*##
\* The greedy \s* and \d+ never need to backtrack, because the character
\* that follows each of them is in neither class.
MarkerAt(s, i) ==
    LET b == SkipWs(s, i + 2)
        c == SkipWs(s, b + 5)
        d == SkipDigits(s, c)
        e == SkipWs(s, d)
    IN  /\ LiteralAt(s, i, HashHash)
        /\ LiteralAt(s, b, TableWord)
        /\ d > c
        /\ LiteralAt(s, e, HashHash)

\* group(1) of the match at index i
MarkerGroup(s, i) ==
    LET c == SkipWs(s, SkipWs(s, i + 2) + 5)
    IN  SubSeq(s, c, SkipDigits(s, c) - 1)

HasMarker(s) == \E i \in 1..Len(s) : MarkerAt(s, i)

\* TABLE_MARKER_RE.search(para): index of the leftmost match
SearchMarker(s) ==
    CHOOSE i \in 1..Len(s) :
        /\ MarkerAt(s, i)
        /\ \A j \in 1..(i - 1) : ~MarkerAt(s, j)

\* the first loop: starts, a list of <<table_idx, paragraph_pos>> (pos 0-based)
RECURSIVE CollectStarts(_, _)
CollectStarts(paragraphs, pos) ==
    IF pos >= Len(paragraphs) THEN <<>>
    ELSE LET para == paragraphs[pos + 1]
         IN  (IF HasMarker(para)
              THEN << <<ParseDec(MarkerGroup(para, SearchMarker(para))), pos>> >>
              ELSE <<>>)
             \o CollectStarts(paragraphs, pos + 1)

\* paragraphs[lo:hi] with 0-based bounds
Slice(list, lo, hi) == SubSeq(list, lo + 1, hi)

EndPosWrong(starts, i, paragraphs) == Len(paragraphs)

\* end_pos for the i-th start (i 0-based)
EndPos(starts, i, paragraphs) ==
    IF i + 1 < Len(starts) THEN starts[i + 2][2] ELSE Len(paragraphs)

\* the second loop: descriptions[table_idx] = text, later entries overwrite
RECURSIVE FillDescriptions(_, _, _, _)
FillDescriptions(starts, i, paragraphs, descriptions) ==
    IF i >= Len(starts) THEN descriptions
    ELSE LET table_idx == starts[i + 1][1]
             start_pos == starts[i + 1][2]
             end_pos == EndPos(starts, i, paragraphs)
             chunk == Slice(paragraphs, start_pos + 1, end_pos)
             text == Strip(Join(<<"\n">>, chunk))
         IN  FillDescriptions(starts, i + 1, paragraphs,
                              Put(descriptions, table_idx, text))

extract_descriptions(paragraphs) ==
    FillDescriptions(CollectStarts(paragraphs, 0), 0, paragraphs, <<>>)

MarkerText(k) ==
    HashHash \o <<" ">> \o TableWord \o <<" ">> \o DecStr(k) \o <<" ">> \o HashHash

ParagraphPool ==
    { <<>>,
      <<"a">>,
      <<" ", "b", "\n">>,
      MarkerText(0),
      MarkerText(1),
      HashHash \o TableWord \o <<"0", "1">> \o HashHash,
      MarkerText(0) \o <<" ">> \o MarkerText(1),
      <<"x", " ">> \o MarkerText(2) \o <<"y">>,
      HashHash \o <<" ">> \o TableWord \o <<" ">> \o HashHash }

InitExtract ==
    /\ script = "extract_descriptions"
    /\ pc = "call"
    /\ args \in {[paragraphs |-> ps] : ps \in SeqUpTo(ParagraphPool, MaxParas)}
    /\ input = <<>>
    /\ examples = <<>>
    /\ eidx = 1
    /\ tidx = 0
    /\ files = <<>>
    /\ dirs = {}
    /\ rules = <<>>
    /\ output = <<>>

ExtractDescriptionsCall ==
    /\ script = "extract_descriptions"
    /\ pc = "call"
    /\ output' = extract_descriptions(args.paragraphs)
    /\ pc' = "done"
    /\ UNCHANGED <<script, input, examples, eidx, tidx, files, dirs, rules, args>>

NextExtract == ExtractDescriptionsCall

SpecExtract == InitExtract /\ [][NextExtract]_vars

\* numbers k such that paragraph para contains a marker "## Table k ##"
MarkerNumbers(para) ==
    {ParseDec(MarkerGroup(para, i)) : i \in {j \in 1..Len(para) : MarkerAt(para, j)}}

\* 0-based position of the next marker-containing paragraph after p, or the
\* length of the list
NextMarkerPos(paragraphs, p) ==
    LET later == {q \in (p + 1)..(Len(paragraphs) - 1) : HasMarker(paragraphs[q + 1])}
    IN  IF later = {} THEN Len(paragraphs)
        ELSE CHOOSE q \in later : \A r \in later : q <= r

\* the text between the marker paragraph p and the next marker paragraph
SpanText(paragraphs, p) ==
    Strip(Join(<<"\n">>,
               [n \in 1..(NextMarkerPos(paragraphs, p) - p - 1) |-> paragraphs[p + 1 + n]]))

\* C1 as stated: every marker "## Table k ##" contained in the paragraph at
\* position p maps k to the stripped, newline-joined text of the paragraphs
\* after p and before the next marker-containing paragraph.
C1_EveryMarkerMapped ==
    pc = "done" =>
        \A p \in 0..(Len(args.paragraphs) - 1) :
            \A k \in MarkerNumbers(args.paragraphs[p + 1]) :
                /\ k \in DOMAIN output
                /\ output[k] = SpanText(args.paragraphs, p)

\* C1 amended: the mapping's keys are the numbers of the leftmost markers of
\* the paragraphs, and for a paragraph at position p whose leftmost marker is
\* "## Table k ##", with no later paragraph whose leftmost marker has the same
\* number, k maps to the stripped, newline-joined text of the paragraphs
\* strictly after p and strictly before the next marker-containing paragraph
\* (or the end of the list).
C1_LastLeftmostMarkerMapped ==
    pc = "done" =>
        LET ps == args.paragraphs
            marked == {p \in 0..(Len(ps) - 1) : HasMarker(ps[p + 1])}
            num(p) == ParseDec(MarkerGroup(ps[p + 1], SearchMarker(ps[p + 1])))
        IN  /\ DOMAIN output = {num(p) : p \in marked}
            /\ \A p \in marked :
                (\A q \in marked : q > p => num(q) # num(p))
                    => output[num(p)] = SpanText(ps, p)

C1_Witness ==
    /\ pc = "done"
    /\ Len(args.paragraphs) = 3
    /\ HasMarker(args.paragraphs[1])
    /\ ~HasMarker(args.paragraphs[2])
    /\ HasMarker(args.paragraphs[3])
    /\ Cardinality(DOMAIN output) = 2
    /\ \E k \in DOMAIN output : output[k] = <<"b">>

----------------------------------------------------------------------------
(* convert_tables_to_xlsx.py and convert_tables_to_xlsx_with_desc.py *)

\* An HTML string is modelled by the sequence of <table> elements it holds;
\* pandas.read_html returns one DataFrame per element and raises ValueError
\* ("No tables found") when there is none.
ReadHtmlRaises(html) == html = <<>>

read_html(html) == html

\* the members of INVALID_XL_CHARS in the model's alphabet (\x0c)
INVALID_XL_CHARS == {"\f"}

sanitize_for_excel(text) == SelectSeq(text, LAMBDA c : c \notin INVALID_XL_CHARS)

UnknownUid == <<"u", "n", "k", "n", "o", "w", "n", "_", "u", "i", "d">>

TablePrefix == <<"t", "a", "b", "l", "e">>

XlsxExt == <<".", "x", "l", "s", "x">>

XlsxNameWrong(idx, sub_idx, ndfs) ==
    TablePrefix \o DecStr(sub_idx) \o XlsxExt

\* f"table{suffix}.xlsx" with suffix = idx when there is one frame, idx_sub_idx otherwise
XlsxName(idx, sub_idx, ndfs) ==
    TablePrefix
        \o (IF ndfs = 1 THEN DecStr(idx) ELSE DecStr(idx) \o <<"_">> \o DecStr(sub_idx))
        \o XlsxExt

\* example_dir / name: a path is <<directory under out, file name>>
XlsxPath(uid, idx, sub_idx, ndfs) == <<uid, XlsxName(idx, sub_idx, ndfs)>>

\* the workbook convert_tables_to_xlsx.py writes for a frame
PlainWorkbook(df) == [table |-> df]

\* the workbook convert_tables_to_xlsx_with_desc.py writes for a frame
DescWorkbook(df, desc_map, idx) ==
    [table |-> df, description |-> sanitize_for_excel(Get(desc_map, idx, <<>>))]

\* the inner loop over enumerate(dfs), from sub_idx on
RECURSIVE WriteFrames(_, _, _, _, _, _)
WriteFrames(fs, locals, idx, dfs, sub_idx, withDesc) ==
    IF sub_idx >= Len(dfs) THEN fs
    ELSE WriteFrames(
            Put(fs, XlsxPath(locals.uid, idx, sub_idx, Len(dfs)),
                IF withDesc
                THEN DescWorkbook(dfs[sub_idx + 1], locals.desc_map, idx)
                ELSE PlainWorkbook(dfs[sub_idx + 1])),
            locals, idx, dfs, sub_idx + 1, withDesc)

HtmlNone == <<>>
HtmlA == <<"A">>
HtmlB == <<"B">>
HtmlAB == <<"A", "B">>

TablesPool ==
    { <<>>,
      <<HtmlA>>,
      <<HtmlNone, HtmlB>>,
      <<HtmlA, HtmlNone>>,
      <<HtmlNone, HtmlAB, HtmlB>> }

ConvertParagraphs ==
    <<MarkerText(1), <<"a", "\f", "b">>, MarkerText(0), <<" ", "c", " ">>, <<"d">>>>

PlainExamplePool ==
    {[uid |-> <<"1">>, tables |-> ts] : ts \in TablesPool}
        \cup {[tables |-> ts] : ts \in TablesPool}
        \cup {[uid |-> <<"1">>], [qa |-> <<"q">>]}

DescExamplePool ==
    PlainExamplePool \cup {Put(e, "paragraphs", ConvertParagraphs) : e \in PlainExamplePool}

ConvertScripts == {"convert_tables_to_xlsx", "convert_tables_to_xlsx_with_desc"}

InitConvert ==
    /\ script \in ConvertScripts
    /\ pc = "main_loop"
    /\ input \in SeqUpTo(IF script = "convert_tables_to_xlsx"
                         THEN PlainExamplePool ELSE DescExamplePool, MaxExamples)
    /\ examples = input
    /\ eidx = 1
    /\ tidx = 0
    /\ files = <<>>
    /\ dirs = {}
    /\ rules = <<>>
    /\ output = <<>>
    /\ args = <<>>

\* main's loop body up to the table loop of export_tables (plain script)
PlainExportBegin ==
    /\ script = "convert_tables_to_xlsx"
    /\ pc = "main_loop"
    /\ eidx <= Len(examples)
    /\ LET example == examples[eidx]
           uid == Get(example, "uid", UnknownUid)
           tables == Get(example, "tables", <<>>)
       IN  /\ args' = [uid |-> uid, tables |-> tables]
           /\ dirs' = dirs \cup {uid}
    /\ tidx' = 0
    /\ pc' = "export_tables"
    /\ UNCHANGED <<script, input, examples, eidx, files, rules, output>>

\* main's loop body up to the table loop of export_tables (with descriptions)
DescExportBegin ==
    /\ script = "convert_tables_to_xlsx_with_desc"
    /\ pc = "main_loop"
    /\ eidx <= Len(examples)
    /\ LET example == examples[eidx]
           uid == Get(example, "uid", UnknownUid)
           tables == Get(example, "tables", <<>>)
           paragraphs == Get(example, "paragraphs", <<>>)
       IN  /\ args' = [uid |-> uid, tables |-> tables,
                       desc_map |-> extract_descriptions(paragraphs)]
           /\ dirs' = dirs \cup {uid}
    /\ tidx' = 0
    /\ pc' = "export_tables"
    /\ UNCHANGED <<script, input, examples, eidx, files, rules, output>>

ExportTableSkipWrong ==
    /\ script \in ConvertScripts
    /\ pc = "export_tables"
    /\ tidx < Len(args.tables)
    /\ ReadHtmlRaises(args.tables[tidx + 1])
    /\ pc' = "done"
    /\ UNCHANGED <<script, input, examples, eidx, tidx, files, dirs, rules, output, args>>

\* read_html raised ValueError: except ValueError: continue
ExportTableSkip ==
    /\ script \in ConvertScripts
    /\ pc = "export_tables"
    /\ tidx < Len(args.tables)
    /\ ReadHtmlRaises(args.tables[tidx + 1])
    /\ tidx' = tidx + 1
    /\ UNCHANGED <<script, pc, input, examples, eidx, files, dirs, rules, output, args>>

\* read_html returned dfs: write one workbook per frame
ExportTableWrite ==
    /\ script \in ConvertScripts
    /\ pc = "export_tables"
    /\ tidx < Len(args.tables)
    /\ ~ReadHtmlRaises(args.tables[tidx + 1])
    /\ files' = WriteFrames(files, args, tidx, read_html(args.tables[tidx + 1]), 0,
                            script = "convert_tables_to_xlsx_with_desc")
    /\ tidx' = tidx + 1
    /\ UNCHANGED <<script, pc, input, examples, eidx, dirs, rules, output, args>>

\* the table loop is exhausted: export_tables returns, main takes the next example
ExportTablesReturn ==
    /\ script \in ConvertScripts
    /\ pc = "export_tables"
    /\ tidx >= Len(args.tables)
    /\ eidx' = eidx + 1
    /\ pc' = "main_loop"
    /\ UNCHANGED <<script, input, examples, tidx, files, dirs, rules, output, args>>

\* main's loop is exhausted
ConvertMainReturn ==
    /\ script \in ConvertScripts
    /\ pc = "main_loop"
    /\ eidx > Len(examples)
    /\ pc' = "done"
    /\ UNCHANGED <<script, input, examples, eidx, tidx, files, dirs, rules, output, args>>

NextConvert ==
    \/ PlainExportBegin
    \/ DescExportBegin
    \/ ExportTableSkip
    \/ ExportTableWrite
    \/ ExportTablesReturn
    \/ ConvertMainReturn

SpecConvert == InitConvert /\ [][NextConvert]_vars

\* the directory and the tables of the i-th input example, as main reads them
ExampleUid(i) == Get(input[i], "uid", UnknownUid)
ExampleTables(i) == Get(input[i], "tables", <<>>)

\* (example, table) pairs, with 0-based table index: all, unparsable, parsable
TableSlots ==
    UNION {{<<i, n>> : n \in 0..(Len(ExampleTables(i)) - 1)} : i \in 1..Len(input)}
Unparsable(i, n) == ExampleTables(i)[n + 1] = <<>>
FrameCount(i, n) == Len(ExampleTables(i)[n + 1])

\* the file name that carries table index n (and frame s of c frames)
NameOf(n, s, c) ==
    IF c = 1 THEN TablePrefix \o DecStr(n) \o XlsxExt
    ELSE TablePrefix \o DecStr(n) \o <<"_">> \o DecStr(s) \o XlsxExt

\* the frames <<example, table index, frame index>> the input holds
Frames ==
    UNION {{<<slot[1], slot[2], f>> : f \in 0..(FrameCount(slot[1], slot[2]) - 1)} :
            slot \in TableSlots}

\* the frames whose workbook goes to the given path
Writers(path) ==
    {w \in Frames :
        path = <<ExampleUid(w[1]), NameOf(w[2], w[3], FrameCount(w[1], w[2]))>>}

\* C2: an unparsable table is skipped and writes no file (every file comes
\* from a frame of a parsed table and carries that table's index), and every
\* later table of the same example and of later examples is still exported
\* under its own index, holding its own frame unless a later example of the
\* same uid rewrote the file; the run reaches its end.
C2_SkipUnparsableAndContinue ==
    /\ \A path \in DOMAIN files : Writers(path) # {}
    /\ pc = "done" =>
        /\ eidx = Len(input) + 1
        /\ \A bad \in TableSlots, w \in Frames :
            (/\ Unparsable(bad[1], bad[2])
             /\ \/ w[1] > bad[1]
                \/ w[1] = bad[1] /\ w[2] > bad[2])
            => LET path == <<ExampleUid(w[1]), NameOf(w[2], w[3], FrameCount(w[1], w[2]))>>
               IN  /\ path \in DOMAIN files
                   /\ (\A v \in Writers(path) : v[1] <= w[1])
                        => files[path].table = ExampleTables(w[1])[w[2] + 1][w[3] + 1]

C2_Witness ==
    /\ pc = "done"
    /\ Len(input) = 2
    /\ Len(ExampleTables(1)) = 3
    /\ Unparsable(1, 0)
    /\ Len(ExampleTables(2)) = 2
    /\ Unparsable(2, 0)
    /\ ExampleUid(1) # ExampleUid(2)
    /\ Cardinality(DOMAIN files) = 4

----------------------------------------------------------------------------
(* generate_train_grp.py *)

\* the model's alphabet in code point order
Alphabet ==
    <<"\t", "\n", "\f", "\r", " ", "#", "(", ")", ",", ".", "/",
      "0", "1", "2", "3", "4", "5", "6", "7", "8", "9", "?",
      "A", "B", "C", "D", "E", "F", "G", "H", "I", "J", "K", "L", "M",
      "N", "O", "P", "Q", "R", "S", "T", "U", "V", "W", "X", "Y", "Z", "_",
      "a", "b", "c", "d", "e", "f", "g", "h", "i", "j", "k", "l", "m",
      "n", "o", "p", "q", "r", "s", "t", "u", "v", "w", "x", "y", "z">>

Chars == {Alphabet[i] : i \in 1..Len(Alphabet)}

\* ord(c), as the rank of c in the alphabet
OrdMap == [c \in Chars |-> CHOOSE i \in 1..Len(Alphabet) : Alphabet[i] = c]

Ord(c) == OrdMap[c]

\* c.lower(): the upper case letters map to the lower case ones
LowerMap ==
    [c \in Chars |->
        IF OrdMap[c] >= OrdMap["A"] /\ OrdMap[c] <= OrdMap["Z"]
        THEN Alphabet[OrdMap[c] - OrdMap["A"] + OrdMap["a"]]
        ELSE c]

LowerChar(c) == LowerMap[c]

\* s.lower()
Lower(s) == [i \in 1..Len(s) |-> LowerChar(s[i])]

\* a < b for str
RECURSIVE LexLess(_, _)
LexLess(a, b) ==
    IF b = <<>> THEN FALSE
    ELSE IF a = <<>> THEN TRUE
    ELSE IF Ord(a[1]) # Ord(b[1]) THEN Ord(a[1]) < Ord(b[1])
    ELSE LexLess(Tail(a), Tail(b))

\* sorted(S) for a set of str
RECURSIVE Sorted(_)
Sorted(S) ==
    IF S = {} THEN <<>>
    ELSE LET m == CHOOSE x \in S : \A y \in S \ {x} : LexLess(x, y)
         IN  <<m>> \o Sorted(S \ {m})

\* index of the first whitespace character of s, Len(s) + 1 when none
RECURSIVE WordEnd(_, _)
WordEnd(s, i) ==
    IF i <= Len(s) /\ s[i] \notin Whitespace THEN WordEnd(s, i + 1) ELSE i

\* s.split()
RECURSIVE Split(_)
Split(s) ==
    LET t == LStrip(s)
    IN  IF t = <<>> THEN <<>>
        ELSE <<SubSeq(t, 1, WordEnd(t, 1) - 1)>>
                \o Split(SubSeq(t, WordEnd(t, 1), Len(t)))

\* a uid of the JSON input is a str or a non-negative int
StrValue(s) == [kind |-> "str", s |-> s, n |-> 0]
IntValue(n) == [kind |-> "int", s |-> <<>>, n |-> n]

\* str(value)
Str(value) == IF value.kind = "int" THEN DecStr(value.n) ELSE value.s

BaseDir == <<"e", "x", "t", "r", "a", "c", "t", "e", "d", "_", "x", "l", "s", "x", "/", "t", "r", "a", "i", "n">>

TrainPrefix == <<"T", "r", "a", "i", "n", "_">>

TitleWords == 15

EndsWith(s, suffix) ==
    /\ Len(suffix) <= Len(s)
    /\ SubSeq(s, Len(s) - Len(suffix) + 1, Len(s)) = suffix

gather_spreadsheets(fdirs, ffiles, base_dir, uid) ==
    LET folder == TrainPrefix \o uid
    IN  IF folder \notin fdirs THEN <<>>
        ELSE Sorted({base_dir \o <<"/">> \o folder \o <<"/">> \o path[2] :
                        path \in {q \in DOMAIN ffiles :
                                    q[1] = folder /\ EndsWith(q[2], XlsxExt)}})

TableSpace == <<"t", "a", "b", "l", "e", " ">>

TableOfContents == <<"t", "a", "b", "l", "e", " ", "o", "f", " ", "c", "o", "n", "t", "e", "n", "t", "s">>

\* the loop of derive_title from paragraph i (1-based) on
RECURSIVE TitleLoop(_, _, _, _, _)
TitleLoop(paragraphs, i, first_non_empty, question, uid) ==
    IF i > Len(paragraphs)
    THEN IF first_non_empty # <<>>
         THEN Join(<<" ">>,
                   SubSeq(Split(first_non_empty), 1,
                          IF Len(Split(first_non_empty)) < TitleWords
                          THEN Len(Split(first_non_empty)) ELSE TitleWords))
         ELSE IF question # <<>> THEN question
         ELSE <<"T", "a", "s", "k", " ">> \o uid
    ELSE LET text == Strip(paragraphs[i])
             fne == IF first_non_empty = <<>> THEN text ELSE first_non_empty
         IN  IF text = <<>> \/ StartsWith(text, HashHash)
             THEN TitleLoop(paragraphs, i + 1, first_non_empty, question, uid)
             ELSE IF /\ StartsWith(Lower(text), TableSpace)
                     /\ ~Contains(Lower(text), TableOfContents)
                  THEN text
                  ELSE TitleLoop(paragraphs, i + 1, fne, question, uid)

derive_title(paragraphs, question, uid) ==
    TitleLoop(paragraphs, 1, <<>>, question, uid)

\* all(needle in program for needle in rule.get("program_contains", []))
RuleMatches(rule, program) ==
    LET needles == Get(rule, "program_contains", <<>>)
    IN  \A j \in 1..Len(needles) : Contains(program, needles[j])

OrderedRulesWrong(rule_set, question_type) ==
    Get(rule_set, "default", <<>>) \o Get(rule_set, question_type, <<>>)

\* rule_set.get(question_type, []) + rule_set.get("default", [])
OrderedRules(rule_set, question_type) ==
    Get(rule_set, question_type, <<>>) \o Get(rule_set, "default", <<>>)

\* the for loop of generate_feedback from rule i (1-based) on
RECURSIVE FeedbackLoop(_, _, _)
FeedbackLoop(ordered_rules, i, program) ==
    IF i > Len(ordered_rules) THEN <<>>
    ELSE IF RuleMatches(ordered_rules[i], program)
         THEN Get(ordered_rules[i], "feedback", <<>>)
         ELSE FeedbackLoop(ordered_rules, i + 1, program)

generate_feedback(rls, question_type, program) ==
    FeedbackLoop(OrderedRules(Get(rls, "question_type_rules", <<>>), question_type),
                 1, program)

TestPrefix == <<"T", "e", "s", "t", " ">>

UidTextWrong(example) == Str(Get(example, "uid", StrValue(<<>>)))

\* str(example.get("uid", "")).strip()
UidText(example) == Strip(Str(Get(example, "uid", StrValue(<<>>))))

build_entry(example, fdirs, ffiles, base_dir, rls) ==
    LET uid == UidText(example)
        qa == Get(example, "qa", <<>>)
        question == Get(qa, "question", <<>>)
        answer == Get(qa, "answer", <<>>)
        question_type ==
            IF Get(qa, "question_type", "") = "" THEN "default" ELSE qa["question_type"]
        program == Get(qa, "program", <<>>)
        paragraphs == Get(example, "paragraphs", <<>>)
    IN  [task_id |-> TestPrefix \o uid,
         title |-> derive_title(paragraphs, question, uid),
         spreadsheets |-> gather_spreadsheets(fdirs, ffiles, base_dir, uid),
         prompt |-> question,
         answer |-> answer,
         expected_output_file |-> <<>>,
         feedback |-> generate_feedback(rls, question_type, program)]

(* generate_feedback as a function of its arguments *)

RulePool ==
    { [program_contains |-> << <<"a">> >>, feedback |-> <<"1">>],
      [program_contains |-> << <<"a">>, <<"b", "c">> >>, feedback |-> <<"2">>],
      [feedback |-> <<"3">>],
      [program_contains |-> << <<"c">> >>] }

RuleLists == SeqUpTo(RulePool, MaxRules)

RuleSets ==
    {[arithmetic |-> a, default |-> d] : a \in RuleLists, d \in RuleLists}
        \cup {[arithmetic |-> a] : a \in RuleLists}
        \cup {[default |-> d] : d \in RuleLists}
        \cup {<<>>}

RulesFiles == {[question_type_rules |-> rs] : rs \in RuleSets} \cup {<<>>}

QuestionTypes == {"arithmetic", "span", "default"}

Programs == {<<>>, <<"a">>, <<"a", "(", "b", "c", ")">>, <<"b", "(", "c", ")">>}

InitFeedback ==
    /\ script = "generate_feedback"
    /\ pc = "call"
    /\ args \in [rules : RulesFiles, question_type : QuestionTypes, program : Programs]
    /\ input = <<>>
    /\ examples = <<>>
    /\ eidx = 1
    /\ tidx = 0
    /\ files = <<>>
    /\ dirs = {}
    /\ rules = <<>>
    /\ output = <<>>

GenerateFeedbackCall ==
    /\ script = "generate_feedback"
    /\ pc = "call"
    /\ output' = generate_feedback(args.rules, args.question_type, args.program)
    /\ pc' = "done"
    /\ UNCHANGED <<script, input, examples, eidx, tidx, files, dirs, rules, args>>

NextFeedback == GenerateFeedbackCall

SpecFeedback == InitFeedback /\ [][NextFeedback]_vars

\* the rules of the call's question type, and the "default" rules
TypeRules == Get(Get(args.rules, "question_type_rules", <<>>), args.question_type, <<>>)
DefaultRules == Get(Get(args.rules, "question_type_rules", <<>>), "default", <<>>)

\* every program_contains substring of rule r occurs in the call's program
AllNeedlesOccur(r) ==
    "program_contains" \in DOMAIN r =>
        \A j \in 1..Len(r["program_contains"]) :
            \E k \in 1..(Len(args.program) + 1) :
                /\ k + Len(r["program_contains"][j]) - 1 <= Len(args.program)
                /\ \A m \in 1..Len(r["program_contains"][j]) :
                    args.program[k + m - 1] = r["program_contains"][j][m]

FeedbackText(r) == IF "feedback" \in DOMAIN r THEN r["feedback"] ELSE <<>>

\* C5: the result is the feedback text of the first matching rule among the
\* question type's rules followed by the default rules; a default rule is
\* chosen only when no rule of the question type matches; the result is empty
\* when no rule matches.
C5_FirstMatchingRule ==
    pc = "done" =>
        LET typeHits == {i \in 1..Len(TypeRules) : AllNeedlesOccur(TypeRules[i])}
            defaultHits == {i \in 1..Len(DefaultRules) : AllNeedlesOccur(DefaultRules[i])}
        IN  /\ typeHits # {} =>
                output = FeedbackText(TypeRules[CHOOSE i \in typeHits :
                                                    \A j \in typeHits : i <= j])
            /\ typeHits = {} /\ defaultHits # {} =>
                output = FeedbackText(DefaultRules[CHOOSE i \in defaultHits :
                                                       \A j \in defaultHits : i <= j])
            /\ typeHits = {} /\ defaultHits = {} => output = <<>>

C5_Witness ==
    /\ pc = "done"
    /\ args.question_type = "arithmetic"
    /\ Len(TypeRules) = 2
    /\ \A i \in 1..Len(TypeRules) : ~AllNeedlesOccur(TypeRules[i])
    /\ Len(DefaultRules) = 2
    /\ ~AllNeedlesOccur(DefaultRules[1])
    /\ AllNeedlesOccur(DefaultRules[2])
    /\ output = <<"1">>

(* generate_train_grp.py: main *)

\* the directory extracted_xlsx/train as main finds it
GrpDirs ==
    {TrainPrefix \o <<"1">>, TrainPrefix \o <<"2">>, TrainPrefix \o <<"1", "2">>}

GrpFiles ==
    [path \in { <<TrainPrefix \o <<"1">>, <<"t", "a", "b", "l", "e", "2", ".", "x", "l", "s", "x">>>>,
                <<TrainPrefix \o <<"1">>, <<"t", "a", "b", "l", "e", "1", "0", ".", "x", "l", "s", "x">>>>,
                <<TrainPrefix \o <<"1">>, <<"t", "a", "b", "l", "e", "0", ".", "x", "l", "s", "x">>>>,
                <<TrainPrefix \o <<"1">>, <<"n", "o", "t", "e", "s", ".", "t", "x", "t">>>>,
                <<TrainPrefix \o <<"2">>, <<"t", "a", "b", "l", "e", "0", ".", "x", "l", "s", "x">>>> } |-> "workbook"]

GrpRulesFiles ==
    { <<>>,
      [question_type_rules |->
        [arithmetic |-> << [program_contains |-> << <<"a">>, <<"b", "c">> >>,
                            feedback |-> <<"2">>] >>,
         default |-> << [program_contains |-> << <<"a">> >>, feedback |-> <<"1">>] >>]] }

GrpUids == {StrValue(<<"1">>), StrValue(<<" ", "2", "\n">>), IntValue(12)}

GrpQas ==
    { [question |-> <<"q", "?">>, answer |-> <<"4">>,
       question_type |-> "arithmetic", program |-> <<"a", "(", "b", "c", ")">>],
      [question |-> <<"w", "?">>, program |-> <<"a">>] }

SixteenWords == [i \in 1..31 |-> IF i % 2 = 1 THEN "w" ELSE " "]

GrpParagraphs ==
    { <<MarkerText(0), <<" ", " ">>, <<"T", "a", "b", "l", "e", " ", "o", "f", " ", "C", "o", "n", "t", "e", "n", "t", "s">>, <<"T", "a", "b", "l", "e", " ", "1", " ", "x">>>>,
      <<SixteenWords>> }

\* an example with any of uid, qa and paragraphs present or absent
GrpExamplePool ==
    LET withUid == {<<>>} \cup {[uid |-> u] : u \in GrpUids}
        withQa == withUid \cup {Put(e, "qa", q) : e \in withUid, q \in GrpQas}
    IN  withQa \cup {Put(e, "paragraphs", ps) : e \in withQa, ps \in GrpParagraphs}

InitGrp ==
    /\ script = "generate_train_grp"
    /\ pc = "build"
    /\ input \in SeqUpTo(GrpExamplePool, MaxExamples)
    /\ examples = input
    /\ eidx = 1
    /\ tidx = 0
    /\ files = GrpFiles
    /\ dirs = GrpDirs
    /\ rules \in GrpRulesFiles
    /\ output = <<>>
    /\ args = <<>>

\* one element of the list comprehension [build_entry(ex, ...) for ex in examples]
BuildEntryStep ==
    /\ script = "generate_train_grp"
    /\ pc = "build"
    /\ eidx <= Len(examples)
    /\ args' = Append(args, build_entry(examples[eidx], dirs, files, BaseDir, rules))
    /\ eidx' = eidx + 1
    /\ UNCHANGED <<script, pc, input, examples, tidx, files, dirs, rules, output>>

\* the comprehension is exhausted: json.dump(output) to train_GRP.json
DumpOutput ==
    /\ script = "generate_train_grp"
    /\ pc = "build"
    /\ eidx > Len(examples)
    /\ output' = args
    /\ pc' = "done"
    /\ UNCHANGED <<script, input, examples, eidx, tidx, files, dirs, rules, args>>

NextGrp == BuildEntryStep \/ DumpOutput

SpecGrp == InitGrp /\ [][NextGrp]_vars

EntryKeys ==
    {"task_id", "title", "spreadsheets", "prompt", "answer",
     "expected_output_file", "feedback"}

\* the uid of an input example as text: its characters when it is a str, its
\* decimal digits when it is an int, nothing when it is absent
UidAsText(e) ==
    IF "uid" \notin DOMAIN e THEN <<>>
    ELSE IF e["uid"].kind = "int" THEN DecStr(e["uid"].n)
    ELSE e["uid"].s

QuestionOf(e) ==
    IF "qa" \in DOMAIN e /\ "question" \in DOMAIN e["qa"] THEN e["qa"]["question"] ELSE <<>>

AnswerOf(e) ==
    IF "qa" \in DOMAIN e /\ "answer" \in DOMAIN e["qa"] THEN e["qa"]["answer"] ELSE <<>>

\* the part of C6 that does not concern task_id
EntriesShaped ==
    /\ Len(output) = Len(input)
    /\ \A i \in 1..Len(output) :
        /\ DOMAIN output[i] = EntryKeys
        /\ output[i]["prompt"] = QuestionOf(input[i])
        /\ output[i]["answer"] = AnswerOf(input[i])
        /\ output[i]["expected_output_file"] = <<>>

\* C6 as stated: one entry per input example, in order, with exactly the
\* seven keys, task_id = "Test <uid>", prompt and answer from the example and
\* an empty expected_output_file, also for examples lacking uid, qa or
\* paragraphs.
C6_EntryPerExample ==
    pc = "done" =>
        /\ EntriesShaped
        /\ \A i \in 1..Len(output) :
            output[i]["task_id"] = TestPrefix \o UidAsText(input[i])

\* the first and the last character of s that are not whitespace
FirstInk(s) == CHOOSE i \in 1..Len(s) :
    s[i] \notin Whitespace /\ \A j \in 1..(i - 1) : s[j] \in Whitespace
LastInk(s) == CHOOSE i \in 1..Len(s) :
    s[i] \notin Whitespace /\ \A j \in (i + 1)..Len(s) : s[j] \in Whitespace

\* s without its leading and trailing whitespace
Trimmed(s) ==
    IF \A i \in 1..Len(s) : s[i] \in Whitespace THEN <<>>
    ELSE [i \in 1..(LastInk(s) - FirstInk(s) + 1) |-> s[FirstInk(s) + i - 1]]

\* C6 amended: as C6, except that task_id is "Test " followed by the uid's
\* text with leading and trailing whitespace removed ("Test " alone when the
\* example has no uid).
C6_EntryPerExampleTrimmedUid ==
    pc = "done" =>
        /\ EntriesShaped
        /\ \A i \in 1..Len(output) :
            output[i]["task_id"] = TestPrefix \o Trimmed(UidAsText(input[i]))

C6_Witness ==
    /\ pc = "done"
    /\ Len(output) = 2
    /\ DOMAIN input[1] = {}
    /\ output[1]["task_id"] = TestPrefix
    /\ "uid" \in DOMAIN input[2]
    /\ input[2]["uid"].s = <<" ", "2", "\n">>
    /\ output[2]["task_id"] = TestPrefix \o <<"2">>
    /\ output[2]["prompt"] = <<"q", "?">>

====
